---- MODULE Spec2Model ----
(***************************************************************************)
(* Index lifecycle and query pipeline of the electronics-ai backend:       *)
(* backend/ai_engine/index.py (build_index, validate_index_files,          *)
(* load_or_build_index), backend/ai_engine/ai_engine.py (ask_ai,           *)
(* ask_ai_streaming, learn_from_interaction) and backend/main.py (ask,     *)
(* ask_stream, startup_event).                                             *)
(*                                                                         *)
(* One server process serves requests on one event loop.  A request runs   *)
(* synchronous code (ask_ai, learn_from_interaction, load_or_build_index,  *)
(* build_index) without yielding; it yields only at "await" (the Redis get *)
(* and set of ask).  The variable cpu names the request that is inside     *)
(* synchronous code.  The process can be killed between any two file       *)
(* operations and is then started again; the files stay as they were.      *)
(***************************************************************************)
EXTENDS Integers, Sequences, FiniteSets, TLC

\* ------------------------------------------------------------------ bounds
MaxDocs       == 2    \* chunks of the datasheet corpus, when there is one
MaxCrashes    == 1    \* kills of the server process
MaxFaults     == 1    \* calls that raise for a reason outside the program's state
MaxTicks      == 2    \* clock ticks, each half a cache TTL
MaxReqs       == 2    \* requests one process serves
MaxTokens     == 2    \* fragments the synthesizer's generator produces for one answer

\* ------------------------------------------------------- program constants
CacheTTL == 3600      \* main.py: redis_client.set(..., ex=3600)

Reqs     == 1..MaxReqs
Queries  == {"a", "ab"}
Contexts == {"", "b"}
\* The (query, context) pairs ask is called with: two of them have the same
\* concatenated text, two the same query.
Asked    == {<<"a", "">>, <<"a", "b">>, <<"ab", "">>}
Seeds    == {1, 2}    \* values of the per-process string hash seed

\* ------------------------------------------------------------------- files
\* index.py: the files validate_index_files requires, under STORAGE_DIR.
FAISS_INDEX_PATH == "faiss_index.index"
DOCSTORE         == "docstore.json"
INDEX_STORE      == "index_store.json"
RequiredFiles    == {FAISS_INDEX_PATH, DOCSTORE, INDEX_STORE}
\* The files storage_context.persist writes that the program reads back.
StagedFiles      == {DOCSTORE, INDEX_STORE}

\* A file's content: missing, truncated/unparsable, or the complete output of
\* write w holding n nodes.
Missing       == [st |-> "missing", w |-> 0, n |-> 0]
Partial(w)    == [st |-> "corrupt", w |-> w, n |-> 0]
Complete(w,n) == [st |-> "ok", w |-> w, n |-> n]
EmptyJson     == [st |-> "ok", w |-> 0, n |-> 0]

NoIndex == [kind |-> "none", wDoc |-> 0, wIdx |-> 0, wVec |-> 0,
            nDoc |-> 0, nVec |-> 0, learned |-> {}]

VARIABLES
    final,         \* STORAGE_DIR (data/faiss): RequiredFiles -> content
    temp,          \* STORAGE_DIR/temp_index: StagedFiles -> content
    simple_vs,     \* data/simple/vector_store.json
    corpus,        \* DATASHEET_DIR: [dir, n]
    cache,         \* Redis: key -> entry
    now,           \* wall clock, seconds
    redis_client,  \* main.py global: TRUE when connected at startup
    seed,          \* this process's string hash seed
    lru,           \* functools.lru_cache of ask_ai: query -> answer
    cpu,           \* the request inside synchronous code, 0 when the loop is free
    req,           \* the requests
    writes,        \* snapshot writes started so far (ids of build_index runs)
    loads,         \* calls of load_or_build_index that read the disk, this process
    crashes,       \* kills so far
    faults,        \* injected failures so far: calls of Redis, the synthesizer, the
                   \* embedding model or the file system that raised
    pre,           \* final as it was when the latest build_index began (when the
                   \* process started, if it has run none since)
    crashPhase,    \* the build step the latest kill interrupted, "none" otherwise
    served,        \* (query, context) -> time ask last answered it on the miss path
                   \* and set the cache, -1 when it has not
    lastLearn      \* the index as the latest successful learn_from_interaction of
                   \* this process left it in memory, NoIndex when there was none

vars == <<final, temp, simple_vs, corpus, cache, now, redis_client, seed, lru,
          cpu, req, writes, loads, crashes, faults, pre, crashPhase, served,
          lastLearn>>


\* ------------------------------------------------------------- pure parts
IsJson(f) == f \in {DOCSTORE, INDEX_STORE}

\* index.py validate_index_files: every required file exists and every .json
\* file parses; faiss_index.index is only checked for existence.
validate_index_files(fs) ==
    \A f \in RequiredFiles :
        /\ fs[f].st # "missing"
        /\ (IsJson(f) => fs[f].st # "corrupt")

\* index.py load_or_build_index, the body of its "if": faiss.read_index and
\* StorageContext.from_defaults raise on a file they cannot read, and may raise
\* for a reason outside the files (ioErr).
LoadRaises(fs, ioErr) == ioErr \/ \E f \in RequiredFiles : fs[f].st # "ok"

\* The index object the load returns: vectors from faiss_index.index, nodes from
\* docstore.json, the index struct from index_store.json.
LoadedIndex(fs) ==
    [kind |-> "loaded",
     wDoc |-> fs[DOCSTORE].w, wIdx |-> fs[INDEX_STORE].w, wVec |-> fs[FAISS_INDEX_PATH].w,
     nDoc |-> fs[DOCSTORE].n, nVec |-> fs[FAISS_INDEX_PATH].n, learned |-> {}]

\* The index object build_index constructs from n chunks, as write w.
BuiltIndex(w, n) ==
    [kind |-> "built", wDoc |-> w, wIdx |-> w, wVec |-> w,
     nDoc |-> n, nVec |-> n, learned |-> {}]

load_or_build_index_nocatch(fs, ioErr) ==
    IF validate_index_files(fs)
    THEN IF LoadRaises(fs, ioErr) THEN "raise" ELSE "load"
    ELSE "build"

\* index.py load_or_build_index: what one call does, "load" or "build"; every
\* exception of the load is caught and answered by build_index.
load_or_build_index(fs, ioErr) ==
    IF validate_index_files(fs)
    THEN IF LoadRaises(fs, ioErr) THEN "build" ELSE "load"
    ELSE "build"

WriteStagedInPlace(fin, tmp, f, content) ==
    <<[fin EXCEPT ![f] = content], [tmp EXCEPT ![f] = content]>>

\* index.py build_index: storage_context.persist(persist_dir=temp_path) writes
\* under STORAGE_DIR/temp_index only.  <<final', temp'>>.
WriteStaged(fin, tmp, f, content) ==
    <<fin, [tmp EXCEPT ![f] = content]>>

\* main.py ask: cache_key = f"query:{hash(request.query + (request.context or ''))}".
\* Python's str hash is salted per process (seed); two texts collide only when equal.
CacheKey(sd, q, c) == <<sd, q \o c>>

Texts == {q \o c : q \in Queries, c \in Contexts}
Keys  == Seeds \X Texts

NoAnswer == [q |-> "", n |-> 0]
\* The synthesizer's answer to q over the nodes of the index it was given.
Answer(q, index) == [q |-> q, n |-> index.nVec + Cardinality(index.learned)]

NoEntry == [val |-> NoAnswer, exp |-> 0]

\* Redis drops an entry once its TTL has run out.
Expire(ch, t) == [k \in Keys |-> IF ch[k].exp > t THEN ch[k] ELSE NoEntry]

ServeNever(entry) == FALSE

\* main.py ask: "if cached:" serves the entry the get returned.
ServeFromCache(entry) == entry # NoEntry

\* learn_from_interaction: the node made of "Q: {query}\nA: {answer}".
QANode(q, a) == <<q, a>>

NoResp   == [status |-> 0, cached |-> FALSE, response |-> NoAnswer, body |-> "none"]
\* main.py ask: raise HTTPException(status_code=500, detail="Error processing query")
Http500  == [status |-> 500, cached |-> FALSE, response |-> NoAnswer, body |-> "http_error"]
\* ai_engine.py ask_ai_streaming: yield "[Error] Something went wrong ..."
ErrorFragment == [status |-> 200, cached |-> FALSE, response |-> NoAnswer, body |-> "error_fragment"]
Reply(a, cached) == [status |-> 200, cached |-> cached, response |-> a, body |-> "answer"]

\* The fragments of a stream.  response.response_gen produces the answer as
\* MaxTokens tokens, in this order; str(response) is the complete answer.
Tokens       == [i \in 1..MaxTokens |-> <<"token", i>>]
FullResponse == <<"full", 0>>
\* ai_engine.py 121: "[Error] Something went wrong during response streaming]"
ErrorToken   == <<"error", 0>>

OnStreamErrorDrop(frags) == frags

\* ai_engine.py ask_ai_streaming 119-121: "except Exception" yields the error
\* fragment after whatever was yielded before.
OnStreamError(frags) == Append(frags, ErrorToken)

IdleReq == [kind |-> "none", q |-> "", c |-> "", pc |-> "idle", ret |-> "",
            index |-> NoIndex, wid |-> 0, result |-> NoAnswer,
            got |-> NoEntry, expectHit |-> FALSE, expectMiss |-> FALSE,
            askAi |-> FALSE, learn |-> FALSE, synth |-> FALSE,
            damaged |-> FALSE, frags |-> <<>>,
            err |-> "", resp |-> NoResp]

BuildPcs == {"b_stage", "b_rename", "b_faiss1", "b_faiss2"}
\* Where a request stands when its call of load_or_build_index has returned.
ReturnPcs == {"query", "squery", "insert", "persist"}

\* -------------------------------------------------------------------- Init
\* A snapshot left by an earlier run of the program: one write, one node.
Snapshot0 == [f \in RequiredFiles |-> Complete(0, 1)]

\* The data directory a process can find at its first start: nothing (first
\* run), a well-formed snapshot, or a snapshot with one file lost or unparsable.
InitDisks ==
    {[f \in RequiredFiles |-> Missing], Snapshot0}
    \cup {[Snapshot0 EXCEPT ![f] = Missing] : f \in RequiredFiles}
    \cup {[Snapshot0 EXCEPT ![f] = Partial(0)] : f \in RequiredFiles}

InitCorpora ==
    {[dir |-> "absent", n |-> 0], [dir |-> "empty", n |-> 0],
     [dir |-> "present", n |-> MaxDocs]}

Init ==
    /\ final \in InitDisks
    /\ temp = [f \in StagedFiles |-> Missing]
    /\ simple_vs = EmptyJson
    /\ corpus \in InitCorpora
    /\ cache = [k \in Keys |-> NoEntry]
    /\ now = 0
    /\ redis_client = TRUE
    /\ seed = 1
    /\ lru = [q \in Queries |-> NoAnswer]
    /\ cpu = 0
    /\ req = [r \in Reqs |-> IdleReq]
    /\ writes = 0
    /\ loads = 0
    /\ crashes = 0
    /\ faults = 0
    /\ pre = final
    /\ crashPhase = "none"
    /\ served = [qc \in Queries \X Contexts |-> -1]
    /\ lastLearn = NoIndex

\* ----------------------------------------------------------------- helpers
LoopFreeAlways(running) == TRUE

\* ask and ask_ai_streaming are coroutines of one event loop: a coroutine starts
\* or resumes only when no other is running, that is, when the one that ran
\* has reached an await, a yield or its end.
LoopFree(running) == running = 0

\* An exception leaves the request: ask turns it into HTTP 500 (main.py
\* 150-152), ask_ai_streaming into its error fragment (ai_engine.py 119-121).
FailedIn(rq, r, e) ==
    [rq EXCEPT ![r].pc = "done", ![r].err = e, ![r].ret = "",
               ![r].index = NoIndex, ![r].wid = 0,
               ![r].frags = IF rq[r].kind = "stream" THEN OnStreamError(@) ELSE @,
               ![r].resp = IF rq[r].kind = "stream" THEN ErrorFragment ELSE Http500]

Failed(r, e) == FailedIn(req, r, e)

\* An outside call raises (bad) at most MaxFaults times in a run.
Fault(bad) ==
    /\ bad => faults < MaxFaults
    /\ faults' = IF bad THEN faults + 1 ELSE faults

\* ---------------------------------------------------------------- actions
\* main.py ask, up to its first await: the cache key, then redis_client.get.
Ask(r, q, c) ==
    /\ LoopFree(cpu)
    /\ req[r].pc = "idle"
    /\ \A o \in Reqs : o < r => req[o].pc # "idle"
    /\ req' = [req EXCEPT ![r] = [IdleReq EXCEPT !.kind = "ask", !.q = q, !.c = c,
                   !.pc = IF redis_client THEN "get_wait" ELSE "miss"]]
    /\ UNCHANGED <<final, temp, simple_vs, corpus, cache, now, redis_client, seed,
                   lru, cpu, writes, loads, crashes, faults, pre, crashPhase,
                   served, lastLearn>>

\* main.py ask 124-132: the get answers (or raises); a truthy entry is served.
CacheGet(r, ok) ==
    /\ LoopFree(cpu)
    /\ req[r].pc = "get_wait"
    /\ Fault(~ok)
    /\ LET k   == CacheKey(seed, req[r].q, req[r].c)
           got == cache[k]
           t   == served[<<req[r].q, req[r].c>>]
           seen == [req EXCEPT ![r].got = got,
                       ![r].expectHit = t >= 0 /\ now < t + CacheTTL,
                       ![r].expectMiss = t >= 0 /\ now >= t + CacheTTL]
       IN  req' = IF ~ok THEN Failed(r, "CacheGetError")
                  ELSE IF ServeFromCache(got)
                       THEN [seen EXCEPT ![r].pc = "done",
                                         ![r].resp = Reply(got.val, TRUE)]
                       ELSE [seen EXCEPT ![r].pc = "miss"]
    /\ UNCHANGED <<final, temp, simple_vs, corpus, cache, now, redis_client, seed,
                   lru, cpu, writes, loads, crashes, pre, crashPhase,
                   served, lastLearn>>

MemoizedNever(memo, q) == FALSE

\* ai_engine.py 76: @lru_cache(maxsize=128) holds an answer for q (the model
\* asks fewer than 128 distinct queries, so none is evicted).
Memoized(memo, q) == memo[q] # NoAnswer

\* ai_engine.py ask_ai under @lru_cache: a memoized query returns at once and
\* ask goes on to learn_from_interaction; any other calls load_or_build_index.
AskAi(r) ==
    /\ LoopFree(cpu)
    /\ req[r].pc = "miss"
    /\ cpu' = r
    /\ req' = IF Memoized(lru, req[r].q)
              THEN [req EXCEPT ![r].askAi = TRUE, ![r].result = lru[req[r].q],
                               ![r].learn = TRUE, ![r].pc = "lob", ![r].ret = "insert"]
              ELSE [req EXCEPT ![r].askAi = TRUE, ![r].pc = "lob", ![r].ret = "query"]
    /\ UNCHANGED <<final, temp, simple_vs, corpus, cache, now, redis_client, seed,
                   lru, writes, loads, crashes, faults, pre, crashPhase, served,
                   lastLearn>>

\* main.py ask_stream / ai_engine.py ask_ai_streaming, up to load_or_build_index.
AskStream(r, q) ==
    /\ LoopFree(cpu)
    /\ req[r].pc = "idle"
    /\ \A o \in Reqs : o < r => req[o].pc # "idle"
    /\ cpu' = r
    /\ req' = [req EXCEPT ![r] = [IdleReq EXCEPT !.kind = "stream", !.q = q,
                                     !.pc = "lob", !.ret = "squery"]]
    /\ UNCHANGED <<final, temp, simple_vs, corpus, cache, now, redis_client, seed,
                   lru, writes, loads, crashes, faults, pre, crashPhase, served,
                   lastLearn>>

\* index.py load_or_build_index 91-112: validate, then load or fall to build_index.
LoadOrBuild(r, ioErr) ==
    /\ cpu = r
    /\ req[r].pc = "lob"
    /\ ioErr => ~LoadRaises(final, FALSE)
    /\ Fault(ioErr)
    /\ loads' = IF loads < 2 THEN loads + 1 ELSE loads
    /\ LET what == load_or_build_index(final, ioErr)
           seen == [req EXCEPT ![r].damaged = \E f \in RequiredFiles : final[f].st # "ok"]
       IN  /\ req' = CASE what = "load" ->
                           [seen EXCEPT ![r].index = LoadedIndex(final), ![r].pc = req[r].ret]
                       [] what = "build" -> [seen EXCEPT ![r].pc = "b_start"]
                       [] OTHER -> FailedIn(seen, r, "LoadError")
           /\ cpu' = IF what \in {"load", "build"} THEN cpu ELSE 0
    /\ UNCHANGED <<final, temp, simple_vs, corpus, cache, now, redis_client, seed,
                   lru, writes, crashes, pre, crashPhase, served, lastLearn>>

\* index.py build_index 26-45: the corpus check, the chunks, the in-memory index.
BuildStart(r, embOk) ==
    /\ cpu = r
    /\ req[r].pc = "b_start"
    /\ ~embOk => corpus.dir = "present"
    /\ Fault(~embOk)
    /\ IF corpus.dir \in {"absent", "empty"} \/ ~embOk
       THEN /\ req' = Failed(r, IF corpus.dir \in {"absent", "empty"}
                                THEN "FileNotFoundError"
                                ELSE "EmbeddingError")
            /\ cpu' = 0
            /\ UNCHANGED <<writes, pre, crashPhase>>
       ELSE /\ req' = [req EXCEPT ![r].pc = "b_stage", ![r].wid = writes + 1,
                                  ![r].index = BuiltIndex(writes + 1, corpus.n)]
            /\ writes' = writes + 1
            /\ pre' = final
            /\ crashPhase' = "none"
            /\ cpu' = cpu
    /\ UNCHANGED <<final, temp, simple_vs, corpus, cache, now, redis_client, seed,
                   lru, loads, crashes, served, lastLearn>>

\* index.py build_index 48-49: storage_context.persist writes each file of the
\* staging directory, first truncated, then complete.
StageWrite(r, f) ==
    /\ cpu = r
    /\ req[r].pc = "b_stage"
    /\ f \in StagedFiles
    /\ LET w    == req[r].wid
           done == Complete(w, req[r].index.nDoc)
           next == IF temp[f] = Partial(w) THEN done ELSE Partial(w)
           both == WriteStaged(final, temp, f, next)
       IN  /\ temp[f] # done
           /\ final' = both[1]
           /\ temp' = both[2]
           /\ req' = IF \A g \in StagedFiles : both[2][g] = done
                      THEN [req EXCEPT ![r].pc = "b_rename"] ELSE req
    /\ UNCHANGED <<simple_vs, corpus, cache, now, redis_client, seed, lru, cpu,
                   writes, loads, crashes, faults, pre, crashPhase, served,
                   lastLearn>>

\* index.py build_index 52-57: one os.rename per file of temp_index, in listdir
\* order, then os.rmdir.
Rename(r, f) ==
    /\ cpu = r
    /\ req[r].pc = "b_rename"
    /\ f \in StagedFiles
    /\ temp[f] # Missing
    /\ final' = [final EXCEPT ![f] = temp[f]]
    /\ temp' = [temp EXCEPT ![f] = Missing]
    /\ req' = IF \A g \in StagedFiles \ {f} : temp[g] = Missing
              THEN [req EXCEPT ![r].pc = "b_faiss1"] ELSE req
    /\ UNCHANGED <<simple_vs, corpus, cache, now, redis_client, seed, lru, cpu,
                   writes, loads, crashes, faults, pre, crashPhase, served,
                   lastLearn>>

\* index.py build_index 60 and 63: faiss.write_index writes FAISS_INDEX_PATH in
\* place, twice; after the second the index is returned to the caller.
FaissWrite(r) ==
    /\ cpu = r
    /\ req[r].pc \in {"b_faiss1", "b_faiss2"}
    /\ LET w == req[r].wid
       IN  IF final[FAISS_INDEX_PATH] = Partial(w)
           THEN /\ final' = [final EXCEPT ![FAISS_INDEX_PATH] = Complete(w, req[r].index.nVec)]
                /\ req' = [req EXCEPT ![r].pc = IF req[r].pc = "b_faiss1"
                                                THEN "b_faiss2" ELSE req[r].ret]
           ELSE /\ final' = [final EXCEPT ![FAISS_INDEX_PATH] = Partial(w)]
                /\ req' = req
    /\ UNCHANGED <<temp, simple_vs, corpus, cache, now, redis_client, seed, lru, cpu,
                   writes, loads, crashes, faults, pre, crashPhase, served,
                   lastLearn>>

\* main.py process_response 100-106: every branch returns the response as it is.
process_response(response) == response

\* ai_engine.py ask_ai 79-92: retriever and query engine over the index; the
\* answer is memoized by @lru_cache only when the call returns.  main.py ask
\* 135-139 then calls learn_from_interaction, which starts with its own
\* load_or_build_index.
Query(r, out) ==
    /\ cpu = r
    /\ req[r].pc = "query"
    /\ Fault(out # "ok")
    /\ IF out = "ok"
       THEN /\ req' = [req EXCEPT ![r].result = Answer(req[r].q, req[r].index),
                                  ![r].synth = TRUE, ![r].learn = TRUE,
                                  ![r].index = NoIndex,
                                  ![r].pc = "lob", ![r].ret = "insert"]
            /\ lru' = [lru EXCEPT ![req[r].q] = Answer(req[r].q, req[r].index)]
            /\ cpu' = cpu
       ELSE /\ req' = [Failed(r, IF out = "timeout" THEN "Timeout" ELSE "SynthesizerError")
                         EXCEPT ![r].synth = TRUE]
            /\ lru' = lru
            /\ cpu' = 0
    /\ UNCHANGED <<final, temp, simple_vs, corpus, cache, now, redis_client, seed,
                   writes, loads, crashes, pre, crashPhase, served,
                   lastLearn>>

\* ai_engine.py ask_ai_streaming 98-118: retriever, query engine and
\* query_engine.query.  With a generator (response_gen) the tokens follow; with
\* none the complete answer is yielded as one fragment; anything raised ends
\* the stream with the error fragment.
StreamQuery(r, out) ==
    /\ cpu = r
    /\ req[r].pc = "squery"
    /\ Fault(out \in {"error", "timeout"})
    /\ req' = CASE out = "ok" ->
                    [req EXCEPT ![r].result = Answer(req[r].q, req[r].index),
                                ![r].synth = TRUE, ![r].pc = "tokens", ![r].ret = "",
                                ![r].index = NoIndex, ![r].wid = 0]
                [] out = "nogen" ->
                    [req EXCEPT ![r].result = Answer(req[r].q, req[r].index),
                                ![r].synth = TRUE, ![r].pc = "done", ![r].ret = "",
                                ![r].index = NoIndex, ![r].wid = 0,
                                ![r].frags = Append(@, FullResponse),
                                ![r].resp = Reply(Answer(req[r].q, req[r].index), FALSE)]
                [] OTHER ->
                    [Failed(r, IF out = "timeout" THEN "Timeout" ELSE "SynthesizerError")
                       EXCEPT ![r].synth = TRUE]
    /\ cpu' = IF out = "ok" THEN cpu ELSE 0
    /\ UNCHANGED <<final, temp, simple_vs, corpus, cache, now, redis_client, seed,
                   lru, writes, loads, crashes, pre, crashPhase, served,
                   lastLearn>>

\* ai_engine.py ask_ai_streaming 113-115: one turn of "async for token in
\* response.response_gen: yield token".  The generator gives the next token,
\* which is yielded to the consumer (the coroutine is suspended there), or is
\* exhausted and the stream ends, or raises.
StreamToken(r, ok) ==
    /\ cpu = r \/ LoopFree(cpu)
    /\ req[r].pc = "tokens"
    /\ Fault(~ok)
    /\ LET n == Len(req[r].frags)
       IN  req' = IF ~ok THEN Failed(r, "StreamError")
                  ELSE IF n < MaxTokens
                       THEN [req EXCEPT ![r].frags = Append(@, Tokens[n + 1])]
                       ELSE [req EXCEPT ![r].pc = "done",
                                        ![r].resp = Reply(req[r].result, FALSE)]
    /\ cpu' = 0
    /\ UNCHANGED <<final, temp, simple_vs, corpus, cache, now, redis_client, seed,
                   lru, writes, loads, crashes, pre, crashPhase, served,
                   lastLearn>>

InsertSwallow(r, ok) ==
    /\ cpu = r
    /\ req[r].pc = "insert"
    /\ Fault(~ok)
    /\ req' = IF ok
              THEN [req EXCEPT ![r].pc = "persist",
                       ![r].index.learned = @ \cup {QANode(req[r].q, req[r].result)}]
              ELSE [req EXCEPT ![r].pc = "persist", ![r].err = "InsertError"]
    /\ cpu' = cpu
    /\ UNCHANGED <<final, temp, simple_vs, corpus, cache, now, redis_client, seed,
                   lru, writes, loads, crashes, pre, crashPhase, served,
                   lastLearn>>

\* ai_engine.py learn_from_interaction 129-132: the Q/A node is inserted into
\* the index object this call obtained; a failure is re-raised (139-141).
Insert(r, ok) ==
    /\ cpu = r
    /\ req[r].pc = "insert"
    /\ Fault(~ok)
    /\ req' = IF ok
              THEN [req EXCEPT ![r].pc = "persist",
                       ![r].index.learned = @ \cup {QANode(req[r].q, req[r].result)}]
              ELSE Failed(r, "InsertError")
    /\ cpu' = IF ok THEN cpu ELSE 0
    /\ UNCHANGED <<final, temp, simple_vs, corpus, cache, now, redis_client, seed,
                   lru, writes, loads, crashes, pre, crashPhase, served,
                   lastLearn>>

\* ai_engine.py learn_from_interaction 133-138: vector_store.persist opens
\* data/simple/vector_store.json for writing (it is truncated), or raises.
PersistBegin(r, ok) ==
    /\ cpu = r
    /\ req[r].pc = "persist"
    /\ simple_vs.st # "corrupt"
    /\ Fault(~ok)
    /\ IF ok
       THEN /\ simple_vs' = Partial(req[r].index.wVec)
            /\ UNCHANGED <<req, cpu>>
       ELSE /\ req' = Failed(r, "PersistError")
            /\ cpu' = 0
            /\ UNCHANGED simple_vs
    /\ UNCHANGED <<final, temp, corpus, cache, now, redis_client, seed, lru,
                   writes, loads, crashes, pre, crashPhase, served,
                   lastLearn>>

\* ai_engine.py learn_from_interaction 133-135 completes and returns; main.py
\* ask 141-149 then awaits redis_client.set, or returns when there is no cache.
PersistEnd(r) ==
    /\ cpu = r
    /\ req[r].pc = "persist"
    /\ simple_vs.st = "corrupt"
    /\ simple_vs' = Complete(req[r].index.wVec,
                             req[r].index.nVec + Cardinality(req[r].index.learned))
    /\ lastLearn' = req[r].index
    /\ req' = IF redis_client
              THEN [req EXCEPT ![r].pc = "set_wait", ![r].ret = "",
                               ![r].index = NoIndex, ![r].wid = 0]
              ELSE [req EXCEPT ![r].pc = "done", ![r].ret = "",
                       ![r].index = NoIndex, ![r].wid = 0,
                       ![r].resp = Reply(process_response(req[r].result), FALSE)]
    /\ cpu' = 0
    /\ UNCHANGED <<final, temp, corpus, cache, now, redis_client, seed, lru,
                   writes, loads, crashes, faults, pre, crashPhase, served>>

\* main.py ask 141-149: redis_client.set(cache_key, ..., ex=3600) answers (or
\* raises), then the answer is returned tagged cached: False.
CacheSet(r, ok) ==
    /\ LoopFree(cpu)
    /\ req[r].pc = "set_wait"
    /\ Fault(~ok)
    /\ IF ok
       THEN /\ cache' = [cache EXCEPT ![CacheKey(seed, req[r].q, req[r].c)] =
                            [val |-> req[r].result, exp |-> now + CacheTTL]]
            /\ served' = [served EXCEPT ![<<req[r].q, req[r].c>>] = now]
            /\ req' = [req EXCEPT ![r].pc = "done",
                          ![r].resp = Reply(process_response(req[r].result), FALSE)]
       ELSE /\ req' = Failed(r, "CacheSetError")
            /\ UNCHANGED <<cache, served>>
    /\ UNCHANGED <<final, temp, simple_vs, corpus, now, redis_client, seed, lru, cpu,
                   writes, loads, crashes, pre, crashPhase, lastLearn>>

\* Time passes, half a TTL at a time, between requests (a request lasts far
\* less than half a TTL); Redis drops what has expired.  Only the cache reads
\* the clock, so time is let pass only while the cache holds an entry.
Tick ==
    /\ \A r \in Reqs : req[r].pc \in {"idle", "done"}
    /\ \E k \in Keys : cache[k] # NoEntry
    /\ now < MaxTicks * (CacheTTL \div 2)
    /\ now' = now + CacheTTL \div 2
    /\ cache' = Expire(cache, now + CacheTTL \div 2)
    /\ UNCHANGED <<final, temp, simple_vs, corpus, redis_client, seed, lru, cpu, req,
                   writes, loads, crashes, faults, pre, crashPhase, served,
                   lastLearn>>

\* The process is killed and started again.  The files stay; the new process
\* has a new hash seed and an empty lru_cache, runs initialize_environment
\* (ai_engine.py 19-46: vector_store.json is recreated as {} when absent or
\* unparsable) and startup_event (main.py 58-67: redis_client is None when the
\* ping fails).
CrashRestart(sd, rc) ==
    /\ crashes < MaxCrashes
    /\ crashes' = crashes + 1
    /\ seed' = sd
    /\ redis_client' = rc
    /\ lru' = [q \in Queries |-> NoAnswer]
    /\ cpu' = 0
    /\ req' = [r \in Reqs |-> IdleReq]
    /\ loads' = 0
    /\ lastLearn' = NoIndex
    /\ simple_vs' = IF simple_vs.st = "ok" THEN simple_vs ELSE EmptyJson
    /\ crashPhase' = IF cpu # 0 /\ req[cpu].pc \in BuildPcs THEN req[cpu].pc
                     ELSE crashPhase
    /\ pre' = IF (cpu # 0 /\ req[cpu].pc \in BuildPcs) \/ crashPhase # "none"
              THEN pre ELSE final
    /\ UNCHANGED <<final, temp, corpus, cache, now, writes, faults, served>>

\* One step of request r.
Step(r) ==
    \/ \E qc \in Asked : Ask(r, qc[1], qc[2])
    \/ \E ok \in BOOLEAN : CacheGet(r, ok)
    \/ AskAi(r)
    \/ \E q \in Queries : AskStream(r, q)
    \/ \E ioErr \in BOOLEAN : LoadOrBuild(r, ioErr)
    \/ \E embOk \in BOOLEAN : BuildStart(r, embOk)
    \/ \E f \in StagedFiles : StageWrite(r, f)
    \/ \E f \in StagedFiles : Rename(r, f)
    \/ FaissWrite(r)
    \/ \E out \in {"ok", "error", "timeout"} : Query(r, out)
    \/ \E out \in {"ok", "nogen", "error", "timeout"} : StreamQuery(r, out)
    \/ \E ok \in BOOLEAN : StreamToken(r, ok)
    \/ \E ok \in BOOLEAN : Insert(r, ok)
    \/ \E ok \in BOOLEAN : PersistBegin(r, ok)
    \/ PersistEnd(r)
    \/ \E ok \in BOOLEAN : CacheSet(r, ok)

\* A deployment with datasheets, at its first run or with a well-formed snapshot.
InitServing ==
    /\ Init
    /\ final \in {[f \in RequiredFiles |-> Missing], Snapshot0}
    /\ corpus.dir = "present"

\* One process serving up to MaxReqs requests concurrently.
Next ==
    \/ \E r \in Reqs : Step(r)
    \/ Tick

Spec == InitServing /\ [][Next]_vars

\* A process that can be killed at any step and started again, serving one
\* request in each life.
NextCrash ==
    \/ Step(1)
    \/ Tick
    \/ \E sd \in Seeds, rc \in BOOLEAN : CrashRestart(sd, rc)

SpecCrash == Init /\ [][NextCrash]_vars

\* ================================================================== claims
AllOfWrite(fs, w) == \A f \in RequiredFiles : fs[f].st = "ok" /\ fs[f].w = w

\* A snapshot write is under way, or was cut short by the latest kill.
Writing == crashPhase # "none" \/ \E r \in Reqs : req[r].pc \in BuildPcs

\* C1: snapshot publication is atomic.  At every step of a snapshot write,
\* and after a kill at that step, the final location holds the files as they
\* were before the write or the complete files of the new write, and an index
\* that was loaded holds files of one write only.
C1_AtomicPublication ==
    /\ Writing => (final = pre \/ AllOfWrite(final, writes))
    /\ \A r \in Reqs : req[r].index.kind = "loaded" =>
           /\ req[r].index.wDoc = req[r].index.wIdx
           /\ req[r].index.wIdx = req[r].index.wVec

\* C2: with a datasheet corpus and a reachable embedding provider, a call of
\* load_or_build_index that finds a required file missing or unparsable does
\* not raise; it returns the index build_index has just built, and the final
\* location then holds that build's files.
C2_DamagedSnapshotRebuilds ==
    \A r \in Reqs : req[r].damaged =>
        /\ req[r].err # "LoadError"
        /\ (corpus.dir = "present" => req[r].err # "FileNotFoundError")
        /\ (req[r].pc \in ReturnPcs =>
               /\ req[r].index.kind = "built"
               /\ req[r].index.wVec = req[r].wid
               /\ req[r].index.nVec = corpus.n
               /\ req[r].index.nDoc = corpus.n
               /\ AllOfWrite(final, req[r].wid))

C2_Witness ==
    \E r \in Reqs :
        /\ req[r].damaged
        /\ req[r].pc = "query"
        /\ req[r].index.kind = "built"
        /\ pre[DOCSTORE].st = "corrupt"

\* C3: after learn_from_interaction has returned, the index the next search
\* runs against is the index that learn left: its nodes and the new Q/A node.
C3_LearnedNodeSeenByNextSearch ==
    \A r \in Reqs :
        (req[r].pc \in {"query", "squery"} /\ lastLearn.kind # "none") =>
            /\ req[r].index.learned = lastLearn.learned
            /\ req[r].index.nVec = lastLearn.nVec
            /\ req[r].index.nDoc = lastLearn.nDoc

\* C4: when the cache get of ask returns an entry, that step ends the request
\* with the entry's answer tagged cached: true; ask_ai and
\* learn_from_interaction are not called for it, and the step changes neither
\* the cache nor the files nor the memoized answers.
C4_CacheHitOnlyServes ==
    [][\A r \in Reqs :
          /\ (req'[r].kind = "ask" /\ req'[r].got # NoEntry) =>
                /\ req'[r].pc = "done"
                /\ req'[r].resp = Reply(req'[r].got.val, TRUE)
                /\ ~req'[r].askAi /\ ~req'[r].learn /\ ~req'[r].synth
          /\ (req[r].pc = "get_wait" /\ req'[r].got # NoEntry) =>
                UNCHANGED <<cache, lru, final, temp, simple_vs, lastLearn, writes>>
      ]_vars

C4_Witness ==
    \E r \in Reqs :
        /\ req[r].kind = "ask"
        /\ req[r].got # NoEntry
        /\ req[r].resp.cached

\* C5: with the cache connected and its get answering, a call for a (query,
\* context) that ask answered less than a TTL ago is served cached: true
\* without ask_ai or the synthesizer; a call made when that TTL has run out
\* finds no entry and is not answered cached: true.
C5_RepeatWithinTTLIsCached ==
    \A r \in Reqs :
        /\ req[r].expectHit =>
              /\ req[r].got # NoEntry
              /\ req[r].resp.cached
              /\ ~req[r].askAi /\ ~req[r].synth
        /\ req[r].expectMiss =>
              /\ req[r].got = NoEntry
              /\ ~req[r].resp.cached

\* C6: when ask_ai has answered and learn_from_interaction then fails, ask
\* still returns the answer tagged cached: false.
C6_LearnFailureKeepsAnswer ==
    \A r \in Reqs :
        (req[r].kind = "ask" /\ req[r].learn /\ req[r].err \notin {"", "CacheSetError"}) =>
            req[r].resp = Reply(process_response(req[r].result), FALSE)

\* C7: a cache get or set that raises does not fail the request: ask still
\* returns an answer.
C7_CacheFailureKeepsAnswer ==
    \A r \in Reqs :
        req[r].err \in {"CacheGetError", "CacheSetError"} =>
            /\ req[r].resp.status = 200
            /\ req[r].resp.body = "answer"

\* C8: while build_index writes the staging directory no file of the final
\* location changes; after a kill at that point the final location is as it
\* was, a snapshot that could be loaded before can be loaded again, and what
\* load_or_build_index loads from it are the nodes it held before the write.
C8_CrashWhileStagingKeepsSnapshot ==
    /\ \A r \in Reqs : req[r].pc = "b_stage" => final = pre
    /\ crashPhase = "b_stage" =>
          /\ final = pre
          /\ (~LoadRaises(pre, FALSE) =>
                 /\ validate_index_files(final)
                 /\ load_or_build_index(final, FALSE) = "load")
          /\ \A r \in Reqs : req[r].pc \in ReturnPcs =>
                 /\ req[r].index.kind = "loaded"
                 /\ req[r].index.nDoc = pre[DOCSTORE].n
                 /\ req[r].index.nVec = pre[FAISS_INDEX_PATH].n
                 /\ req[r].index.wDoc = pre[DOCSTORE].w
                 /\ req[r].index.wIdx = pre[INDEX_STORE].w
                 /\ req[r].index.wVec = pre[FAISS_INDEX_PATH].w

C8_Witness ==
    /\ crashPhase = "b_stage"
    /\ ~LoadRaises(pre, FALSE)
    /\ \E f \in StagedFiles : temp[f].st = "corrupt"
    /\ \E r \in Reqs : req[r].pc = "query" /\ req[r].index.kind = "loaded"

\* C9: with no datasheets build_index does not fail; the index it returns
\* holds exactly one placeholder node.
C9_EmptyCorpusBuilds ==
    \A r \in Reqs :
        corpus.dir # "present" =>
            /\ req[r].err # "FileNotFoundError"
            /\ (req[r].pc \in ReturnPcs /\ req[r].index.kind = "built" =>
                   req[r].index.nDoc = 1)

\* C10: one live index handle per process: load_or_build_index validates and
\* reads the snapshot files at most once in the life of a process.
C10_SingleLiveHandle == loads <= 1

\* Where a request stands inside a writer section: build_index from its start
\* to its last file write, or learn_from_interaction from insert_nodes to the
\* end of persist.
WriterPcs == BuildPcs \cup {"b_start", "insert", "persist"}

\* C11: single-writer discipline.  Over all interleavings of the requests one
\* process serves, at most one request is inside a writer section, and it is
\* the request that holds the event loop.
C11_SingleWriter ==
    \A r \in Reqs : req[r].pc \in WriterPcs =>
        /\ cpu = r
        /\ \A o \in Reqs \ {r} : req[o].pc \notin WriterPcs

C11_Witness ==
    \E r \in Reqs, o \in Reqs :
        /\ r # o
        /\ req[r].pc \in {"b_rename", "persist"}
        /\ req[o].pc \in {"get_wait", "miss", "set_wait"}

\* Request r has called learn_from_interaction and its Q/A node is inserted.
NodeInserted(r) ==
    req[r].learn /\ req[r].err = "" /\ req[r].pc \in {"persist", "set_wait", "done"}

\* C12: identical repeated queries do not produce duplicate learned nodes.
\* Over all interleavings of ask requests for the same (query, context) with no
\* TTL expiry between them and no call failing, learn_from_interaction inserts
\* a Q/A node for at most one of them.
C12_NoDuplicateLearn ==
    \A r \in Reqs, o \in Reqs :
        (/\ r # o
         /\ req[r].kind = "ask" /\ req[o].kind = "ask"
         /\ req[r].q = req[o].q /\ req[r].c = req[o].c
         /\ ~req[r].expectMiss /\ ~req[o].expectMiss)
        => ~(NodeInserted(r) /\ NodeInserted(o))

\* C13: a synthesizer timeout ends ask with a failure of its own, which the
\* client can tell from the generic processing error of other failures.
C13_TimeoutIsDistinct ==
    \A r \in Reqs :
        (req[r].kind = "ask" /\ req[r].err = "Timeout") =>
            /\ req[r].pc = "done"
            /\ req[r].resp # Http500

\* C14: the cache key is the same in every process.  An entry ask has set
\* less than a TTL ago is found under the key the running process computes for
\* the same (query, context), also after a restart.
C14_KeyStableAcrossRestart ==
    \A qc \in Asked :
        (served[qc] >= 0 /\ now < served[qc] + CacheTTL) =>
            cache[CacheKey(seed, qc[1], qc[2])] # NoEntry

\* C15: load_or_build_index returns a loaded index only when the node count
\* of faiss_index.index agrees with that of docstore.json and index_store.json.
C15_LoadedCountsAgree ==
    \A r \in Reqs :
        req[r].index.kind = "loaded" =>
            /\ req[r].index.nVec = req[r].index.nDoc
            /\ final[INDEX_STORE].n = req[r].index.nDoc

\* C16: a cache entry is created only by a successful miss-path answer.  An
\* entry changes only by expiring or by the set of an ask that has run ask_ai
\* and learn_from_interaction without error, which stores its answer under its
\* key with the fixed TTL; every other step of a request, a failure at
\* generation or learning and the learning itself included, leaves the cache
\* as it is.
C16_EntryOnlyFromSuccessfulMiss ==
    [][/\ \A k \in Keys : cache'[k] # cache[k] =>
              \/ cache'[k] = NoEntry /\ cache[k].exp <= now'
              \/ \E r \in Reqs :
                     /\ req[r].kind = "ask" /\ req[r].pc = "set_wait"
                     /\ req[r].askAi /\ req[r].learn /\ req[r].err = ""
                     /\ req[r].result # NoAnswer
                     /\ k = CacheKey(seed, req[r].q, req[r].c)
                     /\ cache'[k] = [val |-> req[r].result, exp |-> now + CacheTTL]
                     /\ req'[r].pc = "done" /\ req'[r].err = ""
       /\ \A r \in Reqs :
              (req[r].pc # "set_wait" /\ req'[r] # req[r]) => cache' = cache
      ]_vars

C16_Witness ==
    /\ \E k \in Keys : cache[k] # NoEntry
    /\ \E r \in Reqs : req[r].err \in {"InsertError", "PersistError"}

\* C17: a cache hit serves only an answer produced for the same request
\* content: the answer ask returns tagged cached: true is an answer to the
\* query of the request it is returned to, also when another (query, context)
\* has the same concatenated text.
C17_HitServesOwnContent ==
    \A r \in Reqs :
        (req[r].kind = "ask" /\ req[r].pc = "done" /\ req[r].resp.cached) =>
            req[r].resp.response.q = req[r].q

\* C18: ask_ai is memoized per process.  An answer ask_ai has returned for a
\* query stays the memoized answer whatever is learned, rebuilt or expired
\* afterwards; a later ask_ai for that query returns it without
\* load_or_build_index, the retriever or the synthesizer (ask goes straight on
\* to learn_from_interaction); a call that raised memoizes nothing, and a
\* query with no memoized answer is executed.
C18_AskAiMemoized ==
    [][/\ \A q \in Queries : lru[q] # NoAnswer => lru'[q] = lru[q]
       /\ \A r \in Reqs :
              /\ (req[r].pc = "miss" /\ req'[r].pc # "miss") =>
                     IF lru[req[r].q] # NoAnswer
                     THEN /\ req'[r].result = lru[req[r].q]
                          /\ req'[r].pc = "lob" /\ req'[r].ret = "insert"
                          /\ req'[r].learn /\ ~req'[r].synth
                          /\ loads' = loads
                     ELSE /\ req'[r].pc = "lob" /\ req'[r].ret = "query"
                          /\ req'[r].result = NoAnswer
              /\ (req[r].pc = "query" /\ req'[r].err # "") => lru' = lru
              /\ (req'[r].kind = "ask" /\ req'[r].synth /\ ~req[r].synth) =>
                     lru[req[r].q] = NoAnswer
      ]_vars

C18_Witness ==
    \E r \in Reqs :
        /\ req[r].kind = "ask" /\ req[r].pc = "done" /\ req[r].err = ""
        /\ req[r].expectMiss
        /\ req[r].askAi /\ ~req[r].synth
        /\ req[r].result = lru[req[r].q]
        /\ lastLearn.kind # "none"

\* The first n tokens of the answer, in production order.
TokensUpTo(n) == SubSeq(Tokens, 1, n)

\* C19: ask_ai_streaming never passes a failure on to its consumer.  A stream
\* never ends as an HTTP error; while it runs it has emitted the tokens
\* produced so far, in production order; when anything failed (the index load
\* or build, retrieval, the start of generation, the token iteration) it has
\* emitted those tokens and then the error fragment, once and last, and has
\* ended; when nothing failed it has ended with all the tokens or, with no
\* generator, with the complete answer as its only fragment.
C19_StreamEndsWithErrorFragment ==
    \A r \in Reqs : req[r].kind = "stream" =>
        /\ req[r].resp # Http500
        /\ IF req[r].err # ""
           THEN /\ req[r].pc = "done"
                /\ req[r].resp = ErrorFragment
                /\ \E n \in 0..MaxTokens :
                       req[r].frags = TokensUpTo(n) \o <<ErrorToken>>
           ELSE IF req[r].pc = "done"
           THEN /\ req[r].resp = Reply(req[r].result, FALSE)
                /\ req[r].frags \in {Tokens, <<FullResponse>>}
           ELSE \E n \in 0..MaxTokens : req[r].frags = TokensUpTo(n)

C19_Witness ==
    \E r \in Reqs :
        /\ req[r].kind = "stream" /\ req[r].pc = "done"
        /\ req[r].err = "StreamError"
        /\ Len(req[r].frags) > 1
        /\ req[r].frags[Len(req[r].frags)] = ErrorToken
====
